---- MODULE Spec2Model ----
(***************************************************************************)
(* Model of the microplastic detector: the analyze-particles route handler *)
(* (reply extraction, decoding and merge) and the page component that      *)
(* drives detection and characterization.                                  *)
(*                                                                         *)
(* Encodings.  JS arrays are sequences, so array position p is sequence    *)
(* position p + 1.  Confidence and the threshold are integers in percent.  *)
(* An optional field that is absent holds Undef.  An analysis object is a  *)
(* record with a tag: "object", "undefined" (key absent) or "null".        *)
(* The reply text of the AI service is a sequence of tokens: brackets,     *)
(* commas, prose and fence characters, and whole JSON values.              *)
(***************************************************************************)
EXTENDS Integers, Sequences, FiniteSets, TLC

VARIABLES
    hpc,        \* analyze-particles handler: "request" or "responded"
    hReq,       \* the request body the handler received
    hEnv,       \* what the handler's collaborators do: API key, AI reply
    hResp       \* the response the handler returned

hvars == <<hpc, hReq, hEnv, hResp>>

VARIABLES
    confidenceThreshold,   \* useState(0.5), in percent
    capturedImage,         \* 0 for null, 1 for the data URL of an image
    boundingBoxes,
    analyzedParticles,
    isDetecting,
    isAnalyzing,
    errorState,            \* Null or the message
    analysisErrorState,    \* Null or the message
    displayMode,
    runs,                  \* the asynchronous work: file reads, startDetection
                           \* and startAnalysis calls, with their local variables
    nRuns,                 \* number of submissions so far
    superseded             \* history: the runs whose request to /api/analyze-particles
                           \* is outstanding and was in flight when a later
                           \* startDetection began

avars == <<confidenceThreshold, capturedImage, boundingBoxes, analyzedParticles,
           isDetecting, isAnalyzing, errorState, analysisErrorState, displayMode,
           runs, nRuns, superseded>>

VARIABLES
    gpc,        \* geometry: "raw", "normalized", "annotated" or "drawn"
    gData,      \* the detector's answer given to processRoboflowResults
    gTarget,    \* the size the boxes are drawn at
    gResult,    \* what processRoboflowResults returned, or that it threw
    gRects,     \* the rectangles createAnnotatedImage strokes
    gOverlay    \* the rectangles drawBoxes strokes

gvars == <<gpc, gData, gTarget, gResult, gRects, gOverlay>>

VARIABLES
    lpc,        \* label: "pending" or "drawn"
    lParticle,  \* the particle drawBoxes is at
    lMode,      \* the displayMode prop
    lBox,       \* the particle's rectangle on the overlay and rect.width
    lLabel      \* the label drawBoxes draws for it: text and background

lvars == <<lpc, lParticle, lMode, lBox, lLabel>>

vars == <<hvars, avars, gvars, lvars>>

----------------------------------------------------------------------------
(* Bounds *)

MaxBoxes == 3
MaxParsed == 2
MaxIndex == 3
MaxRuns == 2
MantissaBits == 8
MaxPredictions == 2

----------------------------------------------------------------------------
(* Values *)

Undef == "undefined"

\* A JS number is a binary floating-point value: <<m, e>> stands for m * 2^e,
\* with m = 0 and e = 0, or 2^(MantissaBits-1) <= |m| < 2^MantissaBits.
\* Every arithmetic operation rounds its exact result to the nearest such
\* value, ties to even.
RECURSIVE Pow2(_)
Pow2(n) == IF n = 0 THEN 1 ELSE 2 * Pow2(n - 1)

Abs(n) == IF n < 0 THEN -n ELSE n

\* the value nearest to a / b * 2^e, for a > 0 and b > 0
RECURSIVE RoundScaled(_, _, _)
RoundScaled(a, b, e) ==
    IF a < Pow2(MantissaBits - 1) * b THEN RoundScaled(2 * a, b, e - 1)
    ELSE IF a >= Pow2(MantissaBits) * b THEN RoundScaled(a, 2 * b, e + 1)
    ELSE
        LET q == a \div b
            r == a % b
            up == 2 * r > b \/ (2 * r = b /\ q % 2 = 1)
            m == IF up THEN q + 1 ELSE q
        IN IF m = Pow2(MantissaBits) THEN <<Pow2(MantissaBits - 1), e + 1>>
           ELSE <<m, e>>

\* what a division by zero gives; no arithmetic is done on these
NotANumber == <<0, 1>>
Infinity == <<1, 0>>

\* the JS number nearest to the ratio n / d
RoundRatio(n, d) ==
    IF d = 0 THEN (IF n = 0 THEN NotANumber ELSE IF n > 0 THEN Infinity ELSE <<-1, 0>>)
    ELSE IF n = 0 THEN <<0, 0>>
    ELSE LET f == RoundScaled(Abs(n), Abs(d), 0)
         IN IF (n < 0) = (d < 0) THEN f ELSE <<-f[1], f[2]>>

\* the JS number nearest to n * 2^e
RoundBinary(n, e) ==
    IF e < 0 THEN RoundRatio(n, Pow2(-e)) ELSE RoundRatio(n * Pow2(e), 1)

\* the JS number n / d of two integer-valued JS numbers
Rel(n, d) == RoundRatio(n, d)

\* f * n, n an integer-valued JS number
Times(f, n) == RoundBinary(f[1] * n, f[2])

\* f * g
Product(f, g) == RoundBinary(f[1] * g[1], f[2] + g[2])

\* variant: the value is not halved
HalfWhole(f) == f

\* f / 2, which is exact
Half(f) == IF f[1] = 0 THEN f ELSE <<f[1], f[2] - 1>>

\* f - g
Minus(f, g) ==
    LET e == IF f[2] < g[2] THEN f[2] ELSE g[2]
    IN RoundBinary(f[1] * Pow2(f[2] - e) - g[1] * Pow2(g[2] - e), e)

BoundingBox(x, y, w, h, conf, cls) ==
    [x |-> x, y |-> y, width |-> w, height |-> h, confidence |-> conf, class |-> cls]

ParticleAnalysis(shape, color, transparency, error, reason) ==
    [tag |-> "object", shape |-> shape, color |-> color,
     transparency |-> transparency, error |-> error, reason |-> reason]

UndefinedAnalysis ==
    [tag |-> "undefined", shape |-> Undef, color |-> Undef,
     transparency |-> Undef, error |-> Undef, reason |-> Undef]

NullAnalysis == [UndefinedAnalysis EXCEPT !.tag = "null"]

NotAnalyzed ==
    ParticleAnalysis("Not Analyzed", "Not Analyzed", "Not Analyzed", Undef,
                     "Index not found in AI response.")

ParseErrorAnalysis ==
    ParticleAnalysis("Parse Error", "Parse Error", "Parse Error",
                     "Could not parse AI analysis response.", Undef)

\* variant: the box is spread last, { index, analysis, ...box }, so a field
\* the box already has wins
WithIndexAnalysisSpreadLast(box, index, analysis) ==
    [f \in (DOMAIN box) \cup {"index", "analysis"} |->
        IF f \in DOMAIN box THEN box[f]
        ELSE IF f = "index" THEN index
        ELSE analysis]

\* { ...box, index: index, analysis: analysis }
WithIndexAnalysis(box, index, analysis) ==
    [f \in (DOMAIN box) \cup {"index", "analysis"} |->
        IF f = "index" THEN index
        ELSE IF f = "analysis" THEN analysis
        ELSE box[f]]

\* { ...box, index }
WithIndex(box, index) ==
    [f \in (DOMAIN box) \cup {"index"} |-> IF f = "index" THEN index ELSE box[f]]

----------------------------------------------------------------------------
(* The reply text and its decoding *)

\* a decoded JSON value as the merge sees it
JsonItem(kind, idxType, idx, analysis) ==
    [kind |-> kind, idxType |-> idxType, idx |-> idx, analysis |-> analysis]

NoItem == JsonItem("none", Undef, 0, UndefinedAnalysis)
NullItem == JsonItem("null", Undef, 0, UndefinedAnalysis)
ArrayItem == JsonItem("array", Undef, 0, UndefinedAnalysis)

Tok(c) == [ch |-> c, item |-> NoItem]
ValTok(item) == [ch |-> "v", item |-> item]

\* String.prototype.indexOf(c): 0-based position of the first c, or -1
RECURSIVE IndexOfFrom(_, _, _)
IndexOfFrom(text, c, i) ==
    IF i > Len(text) THEN -1
    ELSE IF text[i].ch = c THEN i - 1
    ELSE IndexOfFrom(text, c, i + 1)

IndexOf(text, c) == IndexOfFrom(text, c, 1)

\* String.prototype.lastIndexOf(c): 0-based position of the last c, or -1
RECURSIVE LastIndexOfFrom(_, _, _)
LastIndexOfFrom(text, c, i) ==
    IF i < 1 THEN -1
    ELSE IF text[i].ch = c THEN i - 1
    ELSE LastIndexOfFrom(text, c, i - 1)

\* variant: the first c is taken instead of the last
LastIndexOfFirst(text, c) == IndexOfFrom(text, c, 1)

LastIndexOf(text, c) == LastIndexOfFrom(text, c, Len(text))

\* String.prototype.substring(from, to), 0-based, to exclusive
Substring(text, from, to) == SubSeq(text, from + 1, to)

ParseFail == [ok |-> FALSE, val |-> NoItem, items |-> <<>>, next |-> 0]

\* JSON.parse, by recursive descent over the tokens: a value is a value
\* token or a bracketed, comma-separated list of values
RECURSIVE JsonValue(_, _), JsonElements(_, _, _)
JsonValue(t, i) ==
    IF i > Len(t) THEN ParseFail
    ELSE IF t[i].ch = "v" THEN
        [ok |-> TRUE, val |-> t[i].item, items |-> <<>>, next |-> i + 1]
    ELSE IF t[i].ch = "[" THEN
        IF i + 1 <= Len(t) /\ t[i + 1].ch = "]"
        THEN [ok |-> TRUE, val |-> ArrayItem, items |-> <<>>, next |-> i + 2]
        ELSE JsonElements(t, i + 1, <<>>)
    ELSE ParseFail

JsonElements(t, i, acc) ==
    LET v == JsonValue(t, i) IN
    IF ~v.ok \/ v.next > Len(t) THEN ParseFail
    ELSE IF t[v.next].ch = "," THEN JsonElements(t, v.next + 1, Append(acc, v.val))
    ELSE IF t[v.next].ch = "]" THEN
        [ok |-> TRUE, val |-> ArrayItem, items |-> Append(acc, v.val), next |-> v.next + 1]
    ELSE ParseFail

\* variant: a lenient decoder that stops after the first complete value and
\* ignores what follows it
JsonParseLenient(t) ==
    LET v == JsonValue(t, 1) IN
    IF v.ok
    THEN [ok |-> TRUE, isArray |-> t[1].ch = "[", items |-> v.items]
    ELSE [ok |-> FALSE, isArray |-> FALSE, items |-> <<>>]

\* JSON.parse(text): the whole text must be one value
JsonParse(t) ==
    LET v == JsonValue(t, 1) IN
    IF v.ok /\ v.next = Len(t) + 1
    THEN [ok |-> TRUE, isArray |-> t[1].ch = "[", items |-> v.items]
    ELSE [ok |-> FALSE, isArray |-> FALSE, items |-> <<>>]

\* variant: the whole reply text is decoded, nothing is extracted
ParseGeminiResponseWhole(responseText) ==
    LET parsed == JsonParse(responseText) IN
    IF responseText = <<>> \/ ~parsed.ok
    THEN [ok |-> FALSE, parsedAnalysis |-> <<>>, message |-> "SyntaxError"]
    ELSE IF ~parsed.isArray
    THEN [ok |-> FALSE, parsedAnalysis |-> <<>>,
          message |-> "AI response parsed but was not in the expected JSON array format."]
    ELSE [ok |-> TRUE, parsedAnalysis |-> parsed.items, message |-> Undef]

\* the try block of the handler: bracket extraction, decoding, array check
ParseGeminiResponse(responseText) ==
    LET startIndex == IndexOf(responseText, "[")
        endIndex == LastIndexOf(responseText, "]")
    IN
    IF ~(startIndex # -1 /\ endIndex # -1 /\ endIndex > startIndex)
    THEN [ok |-> FALSE, parsedAnalysis |-> <<>>,
          message |-> "Valid JSON array structure not found in AI response."]
    ELSE
        LET parseInput == Substring(responseText, startIndex, endIndex + 1)
            parsed == JsonParse(parseInput)
        IN
        IF parseInput = <<>>
        THEN [ok |-> FALSE, parsedAnalysis |-> <<>>,
              message |-> "AI response content was empty after extraction."]
        ELSE IF ~parsed.ok
        THEN [ok |-> FALSE, parsedAnalysis |-> <<>>, message |-> "SyntaxError"]
        ELSE IF ~parsed.isArray
        THEN [ok |-> FALSE, parsedAnalysis |-> <<>>,
              message |-> "AI response parsed but was not in the expected JSON array format."]
        ELSE [ok |-> TRUE, parsedAnalysis |-> parsed.items, message |-> Undef]

----------------------------------------------------------------------------
(* Merge and fallback *)

\* Array.prototype.find: position of the first item satisfying the handler's
\* predicate for 0-based index, or 0 when there is none
RECURSIVE FindFrom(_, _, _)
FindFrom(parsedAnalysis, index, k) ==
    IF k > Len(parsedAnalysis) THEN 0
    ELSE IF /\ parsedAnalysis[k].kind \in {"object", "array"}
            /\ parsedAnalysis[k].idxType = "number"
            /\ parsedAnalysis[k].idx = index
         THEN k
    ELSE FindFrom(parsedAnalysis, index, k + 1)

\* variant: the index is compared with ==, so the string "0" matches 0
FindLoose(parsedAnalysis, index) ==
    LET matching == {k \in 1..Len(parsedAnalysis) :
                        /\ parsedAnalysis[k].kind \in {"object", "array"}
                        /\ parsedAnalysis[k].idxType \in {"number", "string"}
                        /\ parsedAnalysis[k].idx = index}
    IN IF matching = {} THEN 0
       ELSE CHOOSE k \in matching : \A j \in matching : k <= j

\* variant: the last matching item is taken instead of the first
FindLast(parsedAnalysis, index) ==
    LET matching == {k \in 1..Len(parsedAnalysis) :
                        /\ parsedAnalysis[k].kind \in {"object", "array"}
                        /\ parsedAnalysis[k].idxType = "number"
                        /\ parsedAnalysis[k].idx = index}
    IN IF matching = {} THEN 0
       ELSE CHOOSE k \in matching : \A j \in matching : j <= k

\* variant: the reply's indices are taken as 1-based
FindOneBased(parsedAnalysis, index) == FindFrom(parsedAnalysis, index + 1, 1)

Find(parsedAnalysis, index) == FindFrom(parsedAnalysis, index, 1)

\* variant: boxes without a matching entry are dropped from the result
finalParticlesMatchedOnly(originalBoxes, parsedAnalysis) ==
    LET all == [p \in 1..Len(originalBoxes) |->
                  LET analysisResult == Find(parsedAnalysis, p - 1) IN
                  WithIndexAnalysis(originalBoxes[p], p - 1,
                      IF analysisResult # 0
                      THEN parsedAnalysis[analysisResult].analysis
                      ELSE NotAnalyzed)]
    IN SelectSeq(all, LAMBDA q : q.analysis # NotAnalyzed)

finalParticles(originalBoxes, parsedAnalysis) ==
    [p \in 1..Len(originalBoxes) |->
        LET analysisResult == Find(parsedAnalysis, p - 1) IN
        WithIndexAnalysis(originalBoxes[p], p - 1,
            IF analysisResult # 0
            THEN parsedAnalysis[analysisResult].analysis
            ELSE NotAnalyzed)]

fallbackParticles(originalBoxes) ==
    [p \in 1..Len(originalBoxes) |->
        WithIndexAnalysis(originalBoxes[p], p - 1, ParseErrorAnalysis)]

----------------------------------------------------------------------------
(* The analyze-particles route handler *)

Response(status, error, hasParticles, particles) ==
    [status |-> status, error |-> error, hasParticles |-> hasParticles,
     particles |-> particles]

NoResponse == Response(0, Undef, FALSE, <<>>)

\* POST: req is the decoded request body, env says whether the API key is
\* configured and what generateContent does (throws, or returns a text)
POST(req, env) ==
    IF ~env.apiKey
    THEN Response(500, "Server configuration error.", FALSE, <<>>)
    ELSE IF req.imageBase64 = Undef
    THEN Response(400, "Missing image data.", FALSE, <<>>)
    ELSE IF Len(req.boundingBoxes) = 0
    THEN Response(400, "Missing bounding boxes.", FALSE, <<>>)
    ELSE IF ~env.geminiOk
    THEN Response(500, "AI service error", TRUE, <<>>)
    ELSE
        LET parse == ParseGeminiResponse(env.responseText) IN
        IF ~parse.ok
        THEN Response(200, "AI analysis completed, but response parsing failed.",
                      TRUE, fallbackParticles(req.boundingBoxes))
        ELSE Response(200, Undef, TRUE,
                      finalParticles(req.boundingBoxes, parse.parsedAnalysis))

----------------------------------------------------------------------------
(* Inputs of the handler *)

Fiber == ParticleAnalysis("Fiber", "Blue", "Opaque", Undef, Undef)
Fragment == ParticleAnalysis("Fragment", "Red", "Transparent", Undef, Undef)

\* sequences over S of length at most n
SeqsUpTo(S, n) == UNION {[1..k -> S] : k \in 0..n}

\* request boxes: the client sends the index with each box, another client
\* may send any index
RequestBoxes ==
    { WithIndex(BoundingBox(Rel(1, 2), Rel(1, 2), Rel(1, 5), Rel(1, 5), 90, "particle"), 0),
      WithIndex(BoundingBox(Rel(1, 4), Rel(3, 4), Rel(1, 10), Rel(1, 8), 40, "fiber"), 7) }

HandlerRequests ==
    { [imageBase64 |-> "data:image/png;base64", boundingBoxes |-> bs] :
        bs \in SeqsUpTo(RequestBoxes, MaxBoxes) }
    \cup { [imageBase64 |-> Undef, boundingBoxes |-> bs] :
        bs \in SeqsUpTo(RequestBoxes, 1) }

\* the entries a reply may hold
ReplyItems ==
    { JsonItem("object", "number", i, Fiber) : i \in 0..MaxIndex }
    \cup { JsonItem("object", "number", 0, Fragment),
           JsonItem("object", "string", 0, Fragment),
           JsonItem("object", Undef, 0, Fragment),
           JsonItem("object", "null", 0, Fragment),
           JsonItem("object", "number", 0, UndefinedAnalysis),
           NullItem,
           ArrayItem }

\* JSON text of an array of items
RECURSIVE Elements(_)
Elements(items) ==
    IF items = <<>> THEN <<>>
    ELSE IF Len(items) = 1 THEN <<ValTok(items[1])>>
    ELSE <<ValTok(items[1]), Tok(",")>> \o Elements(Tail(items))

ArrayText(items) == <<Tok("[")>> \o Elements(items) \o <<Tok("]")>>

Prefixes == { <<>>, <<Tok("x"), Tok("fence")>> }
Suffixes == { <<>>, <<Tok("fence"), Tok("x")>> }

\* well-formed arrays, bare or wrapped in prose and fences
WrappedTexts ==
    { pre \o ArrayText(items) \o suf :
        pre \in Prefixes, suf \in Suffixes, items \in SeqsUpTo(ReplyItems, MaxParsed) }

MaxText == 4

\* every short text over brackets, commas, prose and one entry
RawTexts ==
    SeqsUpTo({Tok("["), Tok("]"), Tok(","), Tok("x"),
              ValTok(JsonItem("object", "number", 0, Fiber))}, MaxText)

ReplyTexts == WrappedTexts \cup RawTexts

HandlerEnvs ==
    { [apiKey |-> TRUE, geminiOk |-> TRUE, responseText |-> t] : t \in ReplyTexts }
    \cup { [apiKey |-> TRUE, geminiOk |-> FALSE, responseText |-> <<>>],
           [apiKey |-> FALSE, geminiOk |-> TRUE, responseText |-> <<>>] }

----------------------------------------------------------------------------
(* The page component: state after construction *)

Null == "null"

NoData == [hasImage |-> FALSE, width |-> 0, height |-> 0,
           hasPredictions |-> FALSE, predictions |-> <<>>]

\* a run that has not been submitted yet
\* how the request to /api/analyze-particles settled
NoAnalysisData == [kind |-> "none", body |-> NoResponse]

NoRun == [pc |-> "none", thr |-> 0, detectionData |-> NoData,
          boxesToAnalyze |-> <<>>, analysisData |-> NoAnalysisData]

\* a run whose functions have returned: its local variables are gone
DoneRun == [NoRun EXCEPT !.pc = "done"]

AppStart ==
    /\ confidenceThreshold = 50
    /\ capturedImage = 0
    /\ boundingBoxes = <<>>
    /\ analyzedParticles = <<>>
    /\ isDetecting = FALSE
    /\ isAnalyzing = FALSE
    /\ errorState = Null
    /\ analysisErrorState = Null
    /\ displayMode = "confidence"
    /\ runs = [r \in 1..MaxRuns |-> NoRun]
    /\ nRuns = 0
    /\ superseded = {}

----------------------------------------------------------------------------
(* The page component: derived values *)

isProcessing == isDetecting \/ isAnalyzing

\* variant: only the numeric fields are required
RequiredNumericFields == {"x", "y", "width", "height", "confidence"}

RequiredFields == {"x", "y", "width", "height", "confidence", "class"}

\* a raw prediction; missing holds the names of the fields that are absent
\* or of the wrong type
Prediction(x, y, w, h, conf, cls, missing) ==
    [x |-> x, y |-> y, width |-> w, height |-> h, confidence |-> conf,
     class |-> cls, missing |-> missing]

\* variant: the image dimensions are not checked
processRoboflowResultsUnchecked(roboflowData) ==
    LET imgWidth == roboflowData.width
        imgHeight == roboflowData.height
        valid == SelectSeq(roboflowData.predictions,
                           LAMBDA pred : pred.missing \cap RequiredFields = {})
    IN
    [ok |-> TRUE,
     boxes |-> [k \in 1..Len(valid) |->
                  BoundingBox(Rel(valid[k].x, imgWidth), Rel(valid[k].y, imgHeight),
                              Rel(valid[k].width, imgWidth), Rel(valid[k].height, imgHeight),
                              valid[k].confidence, valid[k].class)]]

\* ok is FALSE when the function throws
processRoboflowResults(roboflowData) ==
    IF ~roboflowData.hasImage \/ roboflowData.width = 0 \/ roboflowData.height = 0
    THEN [ok |-> FALSE, boxes |-> <<>>]
    ELSE IF ~roboflowData.hasPredictions
    THEN [ok |-> TRUE, boxes |-> <<>>]
    ELSE
        LET imgWidth == roboflowData.width
            imgHeight == roboflowData.height
            valid == SelectSeq(roboflowData.predictions,
                               LAMBDA pred : pred.missing \cap RequiredFields = {})
        IN
        [ok |-> TRUE,
         boxes |-> [k \in 1..Len(valid) |->
                      BoundingBox(Rel(valid[k].x, imgWidth), Rel(valid[k].y, imgHeight),
                                  Rel(valid[k].width, imgWidth), Rel(valid[k].height, imgHeight),
                                  valid[k].confidence, valid[k].class)]]

\* variant: the centre of the box is taken as its top-left corner
denormalizeCentre(box, imgWidth, imgHeight) ==
    [topLeftX |-> Times(box.x, imgWidth),
     topLeftY |-> Times(box.y, imgHeight),
     width |-> Times(box.width, imgWidth),
     height |-> Times(box.height, imgHeight)]

\* createAnnotatedImage: the rectangle stroked for a box on a canvas of the
\* image's natural size
denormalize(box, imgWidth, imgHeight) ==
    LET width == Times(box.width, imgWidth)
        height == Times(box.height, imgHeight)
    IN [topLeftX |-> Minus(Times(box.x, imgWidth), Half(width)),
        topLeftY |-> Minus(Times(box.y, imgHeight), Half(height)),
        width |-> width,
        height |-> height]

\* drawBoxes: the rectangle stroked for a particle on the overlay, natural
\* being the image's natural size and rect the size it is displayed at
drawBoxesRect(particle, natural, rect) ==
    LET scaleX == Rel(rect.width, natural.width)
        scaleY == Rel(rect.height, natural.height)
        boxWidth == Product(Times(particle.width, natural.width), scaleX)
        boxHeight == Product(Times(particle.height, natural.height), scaleY)
        boxCenterX == Product(Times(particle.x, natural.width), scaleX)
        boxCenterY == Product(Times(particle.y, natural.height), scaleY)
    IN [topLeftX |-> Minus(boxCenterX, Half(boxWidth)),
        topLeftY |-> Minus(boxCenterY, Half(boxHeight)),
        width |-> boxWidth,
        height |-> boxHeight]

\* variant: a confidence equal to the threshold is not enough
AboveThresholdStrict(boxes, threshold) ==
    SelectSeq(boxes, LAMBDA box : box.confidence > threshold)

\* boxes.filter(box => box.confidence >= threshold)
AboveThreshold(boxes, threshold) ==
    SelectSeq(boxes, LAMBDA box : box.confidence >= threshold)

\* boxes.map((box, index) => ({ ...box, index }))
boxesWithIndices(boxes) == [p \in 1..Len(boxes) |-> WithIndex(boxes[p], p - 1)]

particlesToDisplay ==
    LET particles ==
            IF Len(analyzedParticles) > 0 THEN analyzedParticles
            ELSE [p \in 1..Len(boundingBoxes) |->
                    WithIndexAnalysis(boundingBoxes[p], p - 1, NullAnalysis)]
    IN AboveThreshold(particles, confidenceThreshold)

\* variant: an analysis that carries an error is counted too
AnalyzableWithError(particle) ==
    /\ particle.analysis.tag = "object"
    /\ particle.analysis.shape # "Not Analyzed"

\* the test of line 66: analysis present, no error, shape not the sentinel
Analyzable(particle) ==
    /\ particle.analysis.tag = "object"
    /\ particle.analysis.error \in {Undef, ""}
    /\ particle.analysis.shape # "Not Analyzed"

\* shapes[particle.analysis.shape || "Unknown"]
Label(value) == IF value \in {Undef, ""} THEN "Unknown" ELSE value

\* map[key] = (map[key] || 0) + 1
Increment(map, key) ==
    IF key \in DOMAIN map THEN [map EXCEPT ![key] = @ + 1]
    ELSE [k \in (DOMAIN map) \cup {key} |-> IF k = key THEN 1 ELSE map[k]]

\* analysisStats is null
NullStats ==
    [tag |-> "null", shapes |-> <<>>, colors |-> <<>>, transparency |-> <<>>,
     count |-> 0, analyzedCount |-> 0, hasStats |-> FALSE]

\* the forEach of analysisStats, from particle i on
RECURSIVE Tally(_, _, _)
Tally(particles, i, acc) ==
    IF i > Len(particles) THEN acc
    ELSE IF Analyzable(particles[i])
    THEN Tally(particles, i + 1,
               [acc EXCEPT !.analyzedCount = @ + 1,
                           !.shapes = Increment(@, Label(particles[i].analysis.shape)),
                           !.colors = Increment(@, Label(particles[i].analysis.color)),
                           !.transparency =
                               Increment(@, Label(particles[i].analysis.transparency))])
    ELSE Tally(particles, i + 1, acc)

analysisStats ==
    IF Len(particlesToDisplay) = 0 THEN NullStats
    ELSE LET tally == Tally(particlesToDisplay, 1,
                            [NullStats EXCEPT !.tag = "object",
                                              !.count = Len(particlesToDisplay)])
         IN [tally EXCEPT !.hasStats = tally.analyzedCount > 0]

\* analysisStats?.hasStats
hasStats == analysisStats.tag = "object" /\ analysisStats.hasStats

\* variant: the extended modes are offered as soon as there are stats
availableDisplayModesWithStats ==
    IF analysisStats.tag = "object" THEN {"confidence", "type", "color", "transparency"}
    ELSE {"confidence"}

availableDisplayModes ==
    IF hasStats THEN {"confidence", "type", "color", "transparency"}
    ELSE {"confidence"}

\* the options of the select of AnalysisSettings
displayOptions ==
    LET hasDetailedAnalysis == "type" \in availableDisplayModes IN
    {"confidence"} \cup
        (IF hasDetailedAnalysis THEN {"type", "color", "transparency"} ELSE {})

----------------------------------------------------------------------------
(* The page component: what the collaborators may answer *)

Thresholds == {40, 50, 95}

\* answers of /api/detect with status 200
DetectionData ==
    LET low == Prediction(100, 50, 40, 20, 40, "particle", {})
        high == Prediction(50, 75, 20, 10, 90, "particle", {})
        broken == Prediction(0, 10, 20, 10, 80, "particle", {"x"})
    IN
    { [hasImage |-> FALSE, width |-> 0, height |-> 0,
       hasPredictions |-> TRUE, predictions |-> <<high>>],
      [hasImage |-> TRUE, width |-> 200, height |-> 100,
       hasPredictions |-> FALSE, predictions |-> <<>>],
      [hasImage |-> TRUE, width |-> 200, height |-> 100,
       hasPredictions |-> TRUE, predictions |-> <<>>],
      [hasImage |-> TRUE, width |-> 200, height |-> 100,
       hasPredictions |-> TRUE, predictions |-> <<low, high>>],
      [hasImage |-> TRUE, width |-> 200, height |-> 100,
       hasPredictions |-> TRUE, predictions |-> <<broken, high>>] }

\* what the analyze-particles handler meets when the page calls it
AppEnvs ==
    { [apiKey |-> TRUE, geminiOk |-> TRUE, responseText |-> t] :
        t \in { ArrayText(<<JsonItem("object", "number", 0, Fiber),
                            JsonItem("object", "number", 1, Fragment)>>),
                ArrayText(<<JsonItem("object", "number", 1, Fiber)>>),
                <<Tok("x")>> } }
    \cup { [apiKey |-> TRUE, geminiOk |-> FALSE, responseText |-> <<>>],
           [apiKey |-> FALSE, geminiOk |-> TRUE, responseText |-> <<>>] }

----------------------------------------------------------------------------
(* The page component: operations *)

\* the local variables of run r; pc is its position:
\*   "reading"     readAsDataURL under way
\*   "detecting"   in startDetection, awaiting resizeImage, fetch or /api/detect
\*   "detected"    response.json() of /api/detect has resolved
\*   "annotating"  in startAnalysis, awaiting createAnnotatedImage
\*   "analyzing"   the request to /api/analyze-particles is in flight
\*   "responded"   that request has settled, analysisData says how
\*   "done"        the functions have returned
SetRun(r, pc, thr, data, boxes, analysisData) ==
    runs' = [runs EXCEPT ![r] = [pc |-> pc, thr |-> thr, detectionData |-> data,
                                  boxesToAnalyze |-> boxes,
                                  analysisData |-> analysisData]]

Finish(r) == runs' = [runs EXCEPT ![r] = DoneRun]

\* no continuation of an await is pending: a continuation is a microtask and
\* runs before the next event is taken
Quiescent == \A q \in 1..MaxRuns : runs[q].pc \notin {"detected", "responded"}

\* resetAnalysisState, setCapturedImage and the synchronous part of
\* startDetection, run r being the new run
BeginDetection(r, thr) ==
    /\ capturedImage' = 1
    /\ displayMode' = "confidence"
    /\ isDetecting' = TRUE
    /\ isAnalyzing' = FALSE
    /\ errorState' = Null
    /\ analysisErrorState' = Null
    /\ boundingBoxes' = <<>>
    /\ analyzedParticles' = <<>>
    /\ SetRun(r, "detecting", thr, NoData, <<>>, NoAnalysisData)
    /\ superseded' = superseded \cup {q \in 1..MaxRuns : runs[q].pc = "analyzing"}

\* the user picks a file: the read starts, the closure holds the
\* startDetection of this render and so this render's threshold
handleFileUpload ==
    /\ Quiescent
    /\ ~isProcessing /\ capturedImage = 0
    /\ nRuns < MaxRuns
    /\ nRuns' = nRuns + 1
    /\ SetRun(nRuns + 1, "reading", confidenceThreshold, NoData, <<>>, NoAnalysisData)
    /\ UNCHANGED <<confidenceThreshold, capturedImage, boundingBoxes, analyzedParticles,
                   isDetecting, isAnalyzing, errorState, analysisErrorState,
                   displayMode, superseded>>

\* reader.onloadend with a result
readerLoaded(r) ==
    /\ Quiescent
    /\ runs[r].pc = "reading"
    /\ BeginDetection(r, runs[r].thr)
    /\ UNCHANGED <<confidenceThreshold, nRuns>>

\* reader.onerror, then reader.onloadend without a result
readerFailed(r) ==
    /\ Quiescent
    /\ runs[r].pc = "reading"
    /\ errorState' = "Failed to read file."
    /\ Finish(r)
    /\ UNCHANGED <<confidenceThreshold, capturedImage, boundingBoxes, analyzedParticles,
                   isDetecting, isAnalyzing, analysisErrorState, displayMode,
                   nRuns, superseded>>

\* the Capture button, the webcam giving a screenshot
captureImage ==
    /\ Quiescent
    /\ ~isProcessing /\ capturedImage = 0
    /\ nRuns < MaxRuns
    /\ nRuns' = nRuns + 1
    /\ BeginDetection(nRuns + 1, confidenceThreshold)
    /\ UNCHANGED confidenceThreshold

\* the Capture button, getScreenshot returning null
captureFailed ==
    /\ Quiescent
    /\ ~isProcessing /\ capturedImage = 0
    /\ errorState' = "Failed to capture image."
    /\ UNCHANGED <<confidenceThreshold, capturedImage, boundingBoxes, analyzedParticles,
                   isDetecting, isAnalyzing, analysisErrorState, displayMode,
                   runs, nRuns, superseded>>

\* variant: the catch block reports the failure as a characterization error
DetectionCatchAsAnalysis(message) ==
    /\ analysisErrorState' = message
    /\ isDetecting' = FALSE
    /\ isAnalyzing' = FALSE
    /\ UNCHANGED <<boundingBoxes, analyzedParticles, errorState>>

\* the catch block of startDetection
DetectionCatch(message) ==
    /\ errorState' = message
    /\ isDetecting' = FALSE
    /\ isAnalyzing' = FALSE
    /\ UNCHANGED <<boundingBoxes, analyzedParticles, analysisErrorState>>

\* resizeImage rejects, the image fetch fails, or /api/detect answers with
\* an error status
detectionFailed(r) ==
    /\ Quiescent
    /\ runs[r].pc = "detecting"
    /\ DetectionCatch("Detection Error")
    /\ Finish(r)
    /\ UNCHANGED <<confidenceThreshold, capturedImage, displayMode, nRuns, superseded>>

\* /api/detect answers 200 and response.json() resolves with detectionData
detectionResponded(r) ==
    /\ Quiescent
    /\ runs[r].pc = "detecting"
    /\ \E detectionData \in DetectionData :
          SetRun(r, "detected", runs[r].thr, detectionData, <<>>, NoAnalysisData)
    /\ UNCHANGED <<confidenceThreshold, capturedImage, boundingBoxes, analyzedParticles,
                   isDetecting, isAnalyzing, errorState, analysisErrorState,
                   displayMode, nRuns, superseded>>

\* variant: startAnalysis is called whatever the number of boxes
normalizeAlwaysAnalyze(r) ==
    /\ runs[r].pc = "detected"
    /\ LET result == processRoboflowResults(runs[r].detectionData)
           detectedBoxes == result.boxes
           boxesAboveThreshold == AboveThreshold(detectedBoxes, runs[r].thr)
       IN
       IF ~result.ok
       THEN /\ DetectionCatch("Detection Error: Invalid detection data structure (missing image dimensions).")
            /\ Finish(r)
       ELSE /\ boundingBoxes' = detectedBoxes
            /\ IF Len(boxesAboveThreshold) >= 0
               THEN /\ isDetecting' = FALSE
                    /\ isAnalyzing' = TRUE
                    /\ analysisErrorState' = Null
                    /\ SetRun(r, "annotating", runs[r].thr, runs[r].detectionData,
                              boxesAboveThreshold, NoAnalysisData)
               ELSE /\ isDetecting' = FALSE
                    /\ Finish(r)
                    /\ UNCHANGED <<isAnalyzing, analysisErrorState>>
            /\ UNCHANGED <<analyzedParticles, errorState>>
    /\ UNCHANGED <<confidenceThreshold, capturedImage, displayMode, nRuns, superseded>>

\* startDetection goes on after the await: normalization, and the
\* synchronous part of startAnalysis when a box meets the threshold
normalize(r) ==
    /\ runs[r].pc = "detected"
    /\ LET result == processRoboflowResults(runs[r].detectionData)
           detectedBoxes == result.boxes
           boxesAboveThreshold == AboveThreshold(detectedBoxes, runs[r].thr)
       IN
       IF ~result.ok
       THEN /\ DetectionCatch("Detection Error: Invalid detection data structure (missing image dimensions).")
            /\ Finish(r)
       ELSE /\ boundingBoxes' = detectedBoxes
            /\ IF Len(boxesAboveThreshold) > 0
               THEN /\ isDetecting' = FALSE
                    /\ isAnalyzing' = TRUE
                    /\ analysisErrorState' = Null
                    /\ SetRun(r, "annotating", runs[r].thr, runs[r].detectionData,
                              boxesAboveThreshold, NoAnalysisData)
               ELSE /\ isDetecting' = FALSE
                    /\ Finish(r)
                    /\ UNCHANGED <<isAnalyzing, analysisErrorState>>
            /\ UNCHANGED <<analyzedParticles, errorState>>
    /\ UNCHANGED <<confidenceThreshold, capturedImage, displayMode, nRuns, superseded>>

\* variant: the catch block reports the failure as a detection error
AnalysisCatchAsDetection(message) ==
    /\ analysisErrorState' = message
    /\ errorState' = message
    /\ analyzedParticles' = <<>>
    /\ isAnalyzing' = FALSE
    /\ UNCHANGED <<boundingBoxes, isDetecting>>

\* variant: the finally block is missing
AnalysisCatchNoFinally(message) ==
    /\ analysisErrorState' = message
    /\ analyzedParticles' = <<>>
    /\ UNCHANGED <<boundingBoxes, isDetecting, isAnalyzing, errorState>>

\* the catch and finally blocks of startAnalysis
AnalysisCatch(message) ==
    /\ analysisErrorState' = message
    /\ analyzedParticles' = <<>>
    /\ isAnalyzing' = FALSE
    /\ UNCHANGED <<boundingBoxes, isDetecting, errorState>>

\* `Analysis Error: ${error.message}` for the error of a non-OK response
AnalysisError(error) ==
    IF error = "AI service error" THEN "Analysis Error: AI service error"
    ELSE IF error = "Server configuration error." THEN "Analysis Error: Server configuration error."
    ELSE IF error = "Missing image data." THEN "Analysis Error: Missing image data."
    ELSE "Analysis Error: Missing bounding boxes."

\* createAnnotatedImage resolves and the request is sent
annotated(r) ==
    /\ Quiescent
    /\ runs[r].pc = "annotating"
    /\ SetRun(r, "analyzing", runs[r].thr, runs[r].detectionData,
              runs[r].boxesToAnalyze, NoAnalysisData)
    /\ UNCHANGED <<confidenceThreshold, capturedImage, boundingBoxes, analyzedParticles,
                   isDetecting, isAnalyzing, errorState, analysisErrorState,
                   displayMode, nRuns, superseded>>

\* createAnnotatedImage rejects
annotationFailed(r) ==
    /\ Quiescent
    /\ runs[r].pc = "annotating"
    /\ AnalysisCatch("Analysis Error: Failed to load image for annotation canvas")
    /\ Finish(r)
    /\ UNCHANGED <<confidenceThreshold, capturedImage, displayMode, nRuns, superseded>>

\* the request settles: the fetch rejects, or the body is not JSON, or it is
\* JSON of another shape, or it is what the handler returns
analysisSettled(r) ==
    /\ Quiescent
    /\ runs[r].pc = "analyzing"
    /\ \/ \E k \in {"network", "nonJson", "structure"} :
              SetRun(r, "responded", runs[r].thr, runs[r].detectionData,
                     runs[r].boxesToAnalyze, [kind |-> k, body |-> NoResponse])
       \/ \E env \in AppEnvs :
              SetRun(r, "responded", runs[r].thr, runs[r].detectionData,
                     runs[r].boxesToAnalyze,
                     [kind |-> "response",
                      body |-> POST([imageBase64 |-> "data:image/png;base64",
                                     boundingBoxes |-> boxesWithIndices(runs[r].boxesToAnalyze)],
                                    env)])
    /\ UNCHANGED <<confidenceThreshold, capturedImage, boundingBoxes, analyzedParticles,
                   isDetecting, isAnalyzing, errorState, analysisErrorState,
                   displayMode, nRuns, superseded>>

\* startAnalysis goes on after the await
analysisHandled(r) ==
    /\ runs[r].pc = "responded"
    /\ LET analysisData == runs[r].analysisData IN
       IF analysisData.kind = "network"
       THEN AnalysisCatch("Analysis Error: Failed to fetch")
       ELSE IF analysisData.kind = "nonJson"
       THEN AnalysisCatch("Analysis Error: Analysis API non-JSON response")
       ELSE IF analysisData.kind = "structure"
       THEN AnalysisCatch("Analysis Error: Invalid data structure from analysis API.")
       ELSE IF analysisData.body.status # 200
       THEN AnalysisCatch(AnalysisError(analysisData.body.error))
       ELSE IF analysisData.body.hasParticles
       THEN /\ analyzedParticles' = analysisData.body.particles
            /\ analysisErrorState' =
                   IF analysisData.body.error # Undef THEN analysisData.body.error
                   ELSE analysisErrorState
            /\ isAnalyzing' = FALSE
            /\ UNCHANGED <<boundingBoxes, isDetecting, errorState>>
       ELSE AnalysisCatch("Analysis Error: Invalid data structure from analysis API.")
    /\ Finish(r)
    /\ superseded' = superseded \ {r}
    /\ UNCHANGED <<confidenceThreshold, capturedImage, displayMode, nRuns>>

handleClearImage ==
    /\ Quiescent
    /\ capturedImage # 0 /\ ~isProcessing
    /\ capturedImage' = 0
    /\ errorState' = Null
    /\ analysisErrorState' = Null
    /\ boundingBoxes' = <<>>
    /\ analyzedParticles' = <<>>
    /\ displayMode' = "confidence"
    /\ UNCHANGED <<confidenceThreshold, isDetecting, isAnalyzing, runs, nRuns, superseded>>

\* the slider of AnalysisSettings
setConfidenceThreshold ==
    /\ Quiescent
    /\ capturedImage # 0 /\ ~isProcessing
    /\ \E value \in Thresholds \ {confidenceThreshold} : confidenceThreshold' = value
    /\ UNCHANGED <<capturedImage, boundingBoxes, analyzedParticles, isDetecting,
                   isAnalyzing, errorState, analysisErrorState, displayMode,
                   runs, nRuns, superseded>>

\* the select of AnalysisSettings, which offers the available modes
setDisplayMode ==
    /\ Quiescent
    /\ capturedImage # 0 /\ ~isProcessing
    /\ Cardinality(availableDisplayModes) > 1
    /\ \E value \in availableDisplayModes \ {displayMode} : displayMode' = value
    /\ UNCHANGED <<confidenceThreshold, capturedImage, boundingBoxes, analyzedParticles,
                   isDetecting, isAnalyzing, errorState, analysisErrorState,
                   runs, nRuns, superseded>>

----------------------------------------------------------------------------
(* Specification of the page component *)

\* nothing drawn on the overlay yet
NoOverlay == [natural |-> [width |-> 0, height |-> 0], rects |-> <<>>]

\* the geometry is not exercised
GeometryIdle ==
    /\ gpc = "raw"
    /\ gData = NoData
    /\ gTarget = [width |-> 0, height |-> 0]
    /\ gResult = [ok |-> FALSE, boxes |-> <<>>]
    /\ gRects = <<>>
    /\ gOverlay = NoOverlay

\* no label drawn yet
NoLabel == [text |-> [form |-> "none", class |-> Undef, percent |-> 0, value |-> Undef],
            x |-> 0, y |-> 0, width |-> 0, height |-> 0]

\* the labels are not exercised
LabelIdle ==
    /\ lpc = "pending"
    /\ lParticle = WithIndexAnalysis(BoundingBox(<<0, 0>>, <<0, 0>>, <<0, 0>>, <<0, 0>>,
                                                  0, Undef), 0, NullAnalysis)
    /\ lMode = "confidence"
    /\ lBox = [topLeftX |-> 0, topLeftY |-> 0, boxWidth |-> 0, boxHeight |-> 0,
               rectWidth |-> 0]
    /\ lLabel = NoLabel

\* the handler is not exercised
HandlerIdle ==
    /\ hpc = "request"
    /\ hReq = [imageBase64 |-> Undef, boundingBoxes |-> <<>>]
    /\ hEnv = [apiKey |-> FALSE, geminiOk |-> FALSE, responseText |-> <<>>]
    /\ hResp = NoResponse

Init ==
    /\ AppStart
    /\ HandlerIdle
    /\ GeometryIdle
    /\ LabelIdle

Next ==
    \/ (handleFileUpload /\ UNCHANGED <<hvars, gvars, lvars>>)
    \/ (captureImage /\ UNCHANGED <<hvars, gvars, lvars>>)
    \/ (captureFailed /\ UNCHANGED <<hvars, gvars, lvars>>)
    \/ (handleClearImage /\ UNCHANGED <<hvars, gvars, lvars>>)
    \/ (setConfidenceThreshold /\ UNCHANGED <<hvars, gvars, lvars>>)
    \/ (setDisplayMode /\ UNCHANGED <<hvars, gvars, lvars>>)
    \/ \E r \in 1..MaxRuns :
        \/ (readerLoaded(r) /\ UNCHANGED <<hvars, gvars, lvars>>)
        \/ (readerFailed(r) /\ UNCHANGED <<hvars, gvars, lvars>>)
        \/ (detectionFailed(r) /\ UNCHANGED <<hvars, gvars, lvars>>)
        \/ (detectionResponded(r) /\ UNCHANGED <<hvars, gvars, lvars>>)
        \/ (normalize(r) /\ UNCHANGED <<hvars, gvars, lvars>>)
        \/ (annotated(r) /\ UNCHANGED <<hvars, gvars, lvars>>)
        \/ (annotationFailed(r) /\ UNCHANGED <<hvars, gvars, lvars>>)
        \/ (analysisSettled(r) /\ UNCHANGED <<hvars, gvars, lvars>>)
        \/ (analysisHandled(r) /\ UNCHANGED <<hvars, gvars, lvars>>)

Spec == Init /\ [][Next]_vars

\* a step of a run: an external call returns or fails, or the function goes
\* on after an await
RunStep ==
    \E r \in 1..MaxRuns :
        \/ (readerLoaded(r) /\ UNCHANGED <<hvars, gvars, lvars>>)
        \/ (readerFailed(r) /\ UNCHANGED <<hvars, gvars, lvars>>)
        \/ (detectionFailed(r) /\ UNCHANGED <<hvars, gvars, lvars>>)
        \/ (detectionResponded(r) /\ UNCHANGED <<hvars, gvars, lvars>>)
        \/ (normalize(r) /\ UNCHANGED <<hvars, gvars, lvars>>)
        \/ (annotated(r) /\ UNCHANGED <<hvars, gvars, lvars>>)
        \/ (annotationFailed(r) /\ UNCHANGED <<hvars, gvars, lvars>>)
        \/ (analysisSettled(r) /\ UNCHANGED <<hvars, gvars, lvars>>)
        \/ (analysisHandled(r) /\ UNCHANGED <<hvars, gvars, lvars>>)

\* the page component when every external call returns or fails in the end
\* and every continuation runs
SpecLive == Spec /\ WF_vars(RunStep)

----------------------------------------------------------------------------
(* Specification of the handler: one request, one response *)

HandlerInit ==
    /\ hpc = "request"
    /\ hReq \in HandlerRequests
    /\ hEnv \in HandlerEnvs
    /\ hResp = NoResponse
    /\ AppStart
    /\ GeometryIdle
    /\ LabelIdle

HandlePOST ==
    /\ hpc = "request"
    /\ hResp' = POST(hReq, hEnv)
    /\ hpc' = "responded"
    /\ UNCHANGED <<hReq, hEnv>>
    /\ UNCHANGED <<avars, gvars, lvars>>

HandlerNext == HandlePOST

SpecHandler == HandlerInit /\ [][HandlerNext]_vars

----------------------------------------------------------------------------
(* Specification of the geometry: one detector answer is normalized, then  *)
(* its boxes are drawn on the annotation canvas and on the overlay         *)

\* entries of predictions: well formed, lacking a numeric field, lacking the
\* class, and null
RawPredictions ==
    { Prediction(100, 50, 40, 20, 90, "particle", {}),
      Prediction(28, 14, 14, 7, 40, "fiber", {}),
      Prediction(0, 50, 40, 20, 90, "particle", {"x"}),
      Prediction(100, 50, 40, 20, 0, "particle", {"confidence"}),
      Prediction(100, 50, 40, 20, 90, Undef, {"class"}),
      Prediction(0, 0, 0, 0, 0, Undef, RequiredFields) }

\* image.width and image.height of the answer; 0 also stands for a
\* dimension that is absent
ImageSizes ==
    { [width |-> 200, height |-> 100], [width |-> 110, height |-> 55],
      [width |-> 0, height |-> 100], [width |-> 200, height |-> 0],
      [width |-> -200, height |-> 100], [width |-> 200, height |-> -100] }

GeometryData ==
    { [hasImage |-> TRUE, width |-> size.width, height |-> size.height,
       hasPredictions |-> TRUE, predictions |-> preds] :
         size \in ImageSizes, preds \in SeqsUpTo(RawPredictions, MaxPredictions) }
    \cup { [hasImage |-> TRUE, width |-> size.width, height |-> size.height,
            hasPredictions |-> FALSE, predictions |-> <<>>] : size \in ImageSizes }
    \cup { [hasImage |-> FALSE, width |-> 0, height |-> 0,
            hasPredictions |-> TRUE, predictions |-> preds] :
              preds \in SeqsUpTo(RawPredictions, 1) }

\* sizes of the image on the canvas and on the page
NaturalSizes == { [width |-> 200, height |-> 100], [width |-> 110, height |-> 55] }

\* the size the boxes are drawn at: the size the detector reported, or
\* another one
Targets(data) ==
    { [width |-> 400, height |-> 200] }
    \cup { size \in NaturalSizes : size.width = data.width /\ size.height = data.height }

GeometryInit ==
    /\ gpc = "raw"
    /\ gData \in GeometryData
    /\ gTarget \in Targets(gData)
    /\ gResult = [ok |-> FALSE, boxes |-> <<>>]
    /\ gRects = <<>>
    /\ gOverlay = NoOverlay
    /\ AppStart
    /\ HandlerIdle
    /\ LabelIdle

\* startDetection hands the detector's answer to processRoboflowResults
normalizeDetection ==
    /\ gpc = "raw"
    /\ gResult' = processRoboflowResults(gData)
    /\ gpc' = "normalized"
    /\ UNCHANGED <<gData, gTarget, gRects, gOverlay>>
    /\ UNCHANGED <<hvars, avars, lvars>>

\* createAnnotatedImage strokes every box on a canvas of size gTarget
createAnnotatedImage ==
    /\ gpc = "normalized"
    /\ gResult.ok
    /\ gRects' = [k \in 1..Len(gResult.boxes) |->
                    denormalize(gResult.boxes[k], gTarget.width, gTarget.height)]
    /\ gpc' = "annotated"
    /\ UNCHANGED <<gData, gTarget, gResult, gOverlay>>
    /\ UNCHANGED <<hvars, avars, lvars>>

\* drawBoxes strokes every box on the overlay, the image being displayed at
\* size gTarget
drawBoxes ==
    /\ gpc = "annotated"
    /\ \E natural \in NaturalSizes :
          gOverlay' = [natural |-> natural,
                       rects |-> [k \in 1..Len(gResult.boxes) |->
                                    drawBoxesRect(gResult.boxes[k], natural, gTarget)]]
    /\ gpc' = "drawn"
    /\ UNCHANGED <<gData, gTarget, gResult, gRects>>
    /\ UNCHANGED <<hvars, avars, lvars>>

GeometryNext ==
    \/ normalizeDetection
    \/ createAnnotatedImage
    \/ drawBoxes

SpecGeometry == GeometryInit /\ [][GeometryNext]_vars

----------------------------------------------------------------------------
(* The overlay labels *)

\* Lengths on the overlay are counted in quarters of a CSS pixel: the
\* halves and the factors 1.5 and 0.5 of drawBoxes are then exact, as they
\* are in JS for these operands.
Pixels(n) == 4 * n

MaxLabelWidth == 3

\* `${particle.class} (${confidenceValue}%)`
ClassLabel(class, confidenceValue) ==
    [form |-> "class (confidence%)", class |-> class, percent |-> confidenceValue,
     value |-> Undef]

\* `${confidenceValue}%`
ConfidenceLabel(confidenceValue) ==
    [form |-> "confidence%", class |-> Undef, percent |-> confidenceValue,
     value |-> Undef]

\* `${particle.analysis.shape || 'Unknown'}`
FieldLabel(value) ==
    [form |-> "field", class |-> Undef, percent |-> 0,
     value |-> IF value \in {Undef, ""} THEN "Unknown" ELSE value]

\* variant: the label follows the display mode whenever there is an analysis
labelTextAnyAnalysis(particle, mode) ==
    LET confidenceValue == particle.confidence IN
    IF particle.analysis.tag # "object"
    THEN ClassLabel(particle.class, confidenceValue)
    ELSE IF mode = "confidence" THEN ConfidenceLabel(confidenceValue)
    ELSE IF mode = "type" THEN FieldLabel(particle.analysis.shape)
    ELSE IF mode = "color" THEN FieldLabel(particle.analysis.color)
    ELSE IF mode = "transparency" THEN FieldLabel(particle.analysis.transparency)
    ELSE ClassLabel(particle.class, confidenceValue)

\* labelText of drawBoxes; confidenceValue is (confidence * 100).toFixed(0),
\* the confidence being in percent here
labelText(particle, mode) ==
    LET confidenceValue == particle.confidence IN
    IF \/ particle.analysis.tag # "object"
       \/ particle.analysis.error \notin {Undef, ""}
       \/ particle.analysis.shape = "Not Analyzed"
    THEN ClassLabel(particle.class, confidenceValue)
    ELSE IF mode = "confidence" THEN ConfidenceLabel(confidenceValue)
    ELSE IF mode = "type" THEN FieldLabel(particle.analysis.shape)
    ELSE IF mode = "color" THEN FieldLabel(particle.analysis.color)
    ELSE IF mode = "transparency" THEN FieldLabel(particle.analysis.transparency)
    ELSE ClassLabel(particle.class, confidenceValue)

textHeight == Pixels(11)
padding == Pixels(3)

Max(a, b) == IF a >= b THEN a ELSE b

\* variant: the label always stands above the box
labelBgAbove(box, textWidth) ==
    LET labelBgY == box.topLeftY - textHeight - (padding * 3) \div 2
        labelBgX0 == Max(0, box.topLeftX + box.boxWidth \div 2 - textWidth \div 2 - padding)
        labelBgX == IF labelBgX0 + textWidth + padding * 2 > box.rectWidth
                    THEN box.rectWidth - textWidth - padding * 2
                    ELSE labelBgX0
    IN [x |-> labelBgX, y |-> labelBgY,
        width |-> textWidth + padding * 2, height |-> textHeight + padding]

\* variant: the label is not kept off the right edge
labelBgLeftOnly(box, textWidth) ==
    LET labelBgY0 == box.topLeftY - textHeight - (padding * 3) \div 2
        labelBgY == IF labelBgY0 < 0
                    THEN box.topLeftY + box.boxHeight + padding \div 2
                    ELSE labelBgY0
        labelBgX == Max(0, box.topLeftX + box.boxWidth \div 2 - textWidth \div 2 - padding)
    IN [x |-> labelBgX, y |-> labelBgY,
        width |-> textWidth + padding * 2, height |-> textHeight + padding]

\* the rectangle drawBoxes fills behind the label
labelBg(box, textWidth) ==
    LET labelBgY0 == box.topLeftY - textHeight - (padding * 3) \div 2
        labelBgY == IF labelBgY0 < 0
                    THEN box.topLeftY + box.boxHeight + padding \div 2
                    ELSE labelBgY0
        labelBgX0 == Max(0, box.topLeftX + box.boxWidth \div 2 - textWidth \div 2 - padding)
        labelBgX == IF labelBgX0 + textWidth + padding * 2 > box.rectWidth
                    THEN box.rectWidth - textWidth - padding * 2
                    ELSE labelBgX0
    IN [x |-> labelBgX, y |-> labelBgY,
        width |-> textWidth + padding * 2, height |-> textHeight + padding]

\* the analyses a displayed particle may carry: none, absent, a
\* characterization, one with fields missing, the two sentinels
LabelAnalyses ==
    { NullAnalysis, UndefinedAnalysis, Fiber,
      ParticleAnalysis(Undef, "Blue", "", Undef, Undef),
      NotAnalyzed, ParseErrorAnalysis }

LabelParticles ==
    { WithIndexAnalysis(BoundingBox(Rel(1, 2), Rel(1, 2), Rel(1, 10), Rel(1, 10),
                                    90, "particle"), 0, analysis) :
        analysis \in LabelAnalyses }

DisplayModes == {"confidence", "type", "color", "transparency"}

\* rectangles of 20 by 10 pixels on an image displayed 200 pixels wide, and
\* one on an image displayed 50 pixels wide
LabelBoxes ==
    { [topLeftX |-> Pixels(x), topLeftY |-> Pixels(y), boxWidth |-> Pixels(20),
       boxHeight |-> Pixels(10), rectWidth |-> Pixels(200)] :
        x \in {0, 90, 180}, y \in {0, 15, 16, 40} }
    \cup { [topLeftX |-> Pixels(10), topLeftY |-> Pixels(20), boxWidth |-> Pixels(20),
            boxHeight |-> Pixels(10), rectWidth |-> Pixels(50)] }

\* what ctx.measureText may answer
TextWidths == { Pixels(20 * k) : k \in 1..MaxLabelWidth }

LabelInit ==
    /\ lpc = "pending"
    /\ lParticle \in LabelParticles
    /\ lMode \in DisplayModes
    /\ lBox \in LabelBoxes
    /\ lLabel = NoLabel
    /\ AppStart
    /\ HandlerIdle
    /\ GeometryIdle

\* drawBoxes draws the label of the particle
drawLabel ==
    /\ lpc = "pending"
    /\ \E textWidth \in TextWidths :
          LET bg == labelBg(lBox, textWidth) IN
          lLabel' = [text |-> labelText(lParticle, lMode),
                     x |-> bg.x, y |-> bg.y, width |-> bg.width, height |-> bg.height]
    /\ lpc' = "drawn"
    /\ UNCHANGED <<lParticle, lMode, lBox>>
    /\ UNCHANGED <<hvars, avars, gvars>>

LabelNext == drawLabel

SpecLabel == LabelInit /\ [][LabelNext]_vars

----------------------------------------------------------------------------
(* Properties of the handler, checked under SpecHandler *)

GeometryFields == {"x", "y", "width", "height", "confidence", "class"}

\* the request passed validation and the AI service returned a text
ReplyReceived ==
    /\ hpc = "responded"
    /\ hEnv.apiKey
    /\ hReq.imageBase64 # Undef
    /\ Len(hReq.boundingBoxes) > 0
    /\ hEnv.geminiOk

Parsed == ParseGeminiResponse(hEnv.responseText)

MergeReached == ReplyReceived /\ Parsed.ok

\* the reply has an entry whose index is the number i
HasEntry(parsedAnalysis, i) ==
    \E k \in 1..Len(parsedAnalysis) :
        /\ parsedAnalysis[k].kind = "object"
        /\ parsedAnalysis[k].idxType = "number"
        /\ parsedAnalysis[k].idx = i

\* C1: the merge returns exactly len(boundingBoxes) particles, whatever the
\* parsed array holds (nothing, some indices, duplicates, indices out of range)
C1_MergeCardinality ==
    MergeReached =>
        /\ hResp.status = 200
        /\ Len(hResp.particles) = Len(hReq.boundingBoxes)

\* a merge of three boxes with a reply that names index 0 twice
C1_Witness ==
    /\ MergeReached
    /\ Len(hReq.boundingBoxes) = 3
    /\ Len(Parsed.parsedAnalysis) = 2
    /\ Parsed.parsedAnalysis[1].idxType = "number"
    /\ Parsed.parsedAnalysis[2].idxType = "number"
    /\ Parsed.parsedAnalysis[1].idx = Parsed.parsedAnalysis[2].idx
    /\ Len(hResp.particles) = 3

\* no '[' comes before a ']' in the text
NoBracketPair(text) ==
    ~ \E i \in 1..Len(text) :
          /\ text[i].ch = "["
          /\ \E j \in (i + 1)..Len(text) : text[j].ch = "]"

\* a prose or fence character stands between a '[' and a later ']'
JunkInside(text) ==
    \E i \in 1..Len(text) :
        /\ text[i].ch = "["
        /\ \E j \in (i + 2)..Len(text) :
              /\ text[j].ch = "]"
              /\ \E k \in (i + 1)..(j - 1) : text[k].ch \in {"x", "fence"}

ParseFails ==
    \/ ~Parsed.ok
    \/ NoBracketPair(hEnv.responseText)
    \/ JunkInside(hEnv.responseText)

\* C4: when extraction or decoding fails, every original box comes back in
\* order, index = position, with the "Parse Error" analysis and an error
\* message, and nothing of the reply is merged
C4_ParseAllOrNothing ==
    (ReplyReceived /\ ParseFails) =>
        /\ hResp.status = 200
        /\ Len(hResp.particles) = Len(hReq.boundingBoxes)
        /\ \A p \in 1..Len(hResp.particles) :
            /\ hResp.particles[p].index = p - 1
            /\ \A f \in GeometryFields :
                  hResp.particles[p][f] = hReq.boundingBoxes[p][f]
            /\ hResp.particles[p].analysis.tag = "object"
            /\ hResp.particles[p].analysis.shape = "Parse Error"
            /\ hResp.particles[p].analysis.color = "Parse Error"
            /\ hResp.particles[p].analysis.transparency = "Parse Error"
            /\ hResp.particles[p].analysis.error # Undef

\* a reply that holds a usable entry for box 0 inside brackets, followed by
\* prose before the last bracket, so that decoding fails
C4_Witness ==
    /\ ReplyReceived
    /\ ~NoBracketPair(hEnv.responseText)
    /\ JunkInside(hEnv.responseText)
    /\ \E k \in 1..Len(hEnv.responseText) :
          /\ hEnv.responseText[k].ch = "v"
          /\ hEnv.responseText[k].item.idxType = "number"
          /\ hEnv.responseText[k].item.idx = 0
    /\ hResp.particles[1].analysis.shape = "Parse Error"

\* C9: the merge keeps order and geometry: particle p has index p and the
\* x, y, width, height, confidence and class of box p; only analysis comes
\* from the reply
C9_MergePreservesGeometry ==
    MergeReached =>
        LET parsedAnalysis == Parsed.parsedAnalysis IN
        /\ Len(hResp.particles) = Len(hReq.boundingBoxes)
        /\ \A p \in 1..Len(hResp.particles) :
            /\ hResp.particles[p].index = p - 1
            /\ \A f \in GeometryFields :
                  hResp.particles[p][f] = hReq.boundingBoxes[p][f]
            /\ DOMAIN hResp.particles[p] = GeometryFields \cup {"index", "analysis"}
            /\ \/ hResp.particles[p].analysis = NotAnalyzed
               \/ \E k \in 1..Len(parsedAnalysis) :
                     hResp.particles[p].analysis = parsedAnalysis[k].analysis

\* a merge of two different boxes, the second sent with an index that is not
\* its position, where the reply has an entry for the second
C9_Witness ==
    /\ MergeReached
    /\ Len(hReq.boundingBoxes) >= 2
    /\ hReq.boundingBoxes[1] # hReq.boundingBoxes[2]
    /\ hReq.boundingBoxes[2].index # 1
    /\ HasEntry(Parsed.parsedAnalysis, 1)
    /\ hResp.particles[2].analysis = Fiber

\* C10 as stated: an index without an entry gets the sentinel whose reason
\* is "Index not found in AI response"
C10_SentinelAsStated ==
    MergeReached =>
        \A p \in 1..Len(hResp.particles) :
            ~HasEntry(Parsed.parsedAnalysis, p - 1) =>
                /\ hResp.particles[p].analysis.shape = "Not Analyzed"
                /\ hResp.particles[p].analysis.color = "Not Analyzed"
                /\ hResp.particles[p].analysis.transparency = "Not Analyzed"
                /\ hResp.particles[p].analysis.reason = "Index not found in AI response"

\* C10 amended: an index without an entry gets the sentinel {shape, color,
\* transparency = "Not Analyzed", reason = "Index not found in AI response."}
\* (the reason ends with a full stop)
C10_Sentinel ==
    MergeReached =>
        LET parsedAnalysis == Parsed.parsedAnalysis IN
        /\ Len(hResp.particles) = Len(hReq.boundingBoxes)
        /\ \A p \in 1..Len(hResp.particles) :
            ~HasEntry(parsedAnalysis, p - 1) =>
                /\ hResp.particles[p].analysis.tag = "object"
                /\ hResp.particles[p].analysis.shape = "Not Analyzed"
                /\ hResp.particles[p].analysis.color = "Not Analyzed"
                /\ hResp.particles[p].analysis.transparency = "Not Analyzed"
                /\ hResp.particles[p].analysis.reason = "Index not found in AI response."
                /\ hResp.particles[p].analysis.error = Undef

\* three boxes and a reply with entries for 0 and 1 but none for 2
C10_Witness ==
    /\ MergeReached
    /\ Len(hReq.boundingBoxes) = 3
    /\ HasEntry(Parsed.parsedAnalysis, 0)
    /\ HasEntry(Parsed.parsedAnalysis, 1)
    /\ ~HasEntry(Parsed.parsedAnalysis, 2)
    /\ hResp.particles[3].analysis.shape = "Not Analyzed"

----------------------------------------------------------------------------
(* Properties of the page component, checked under Spec *)

Runs == 1..MaxRuns

\* C2: when a second run has begun while the characterization call of a
\* first run was in flight, the response of the first is dropped:
\* analyzedParticles is not set from it
C2_StaleResultDropped ==
    [][\A r \in superseded :
          (/\ runs[r].pc = "responded" /\ runs'[r].pc = "done"
           /\ runs[r].analysisData.kind = "response"
           /\ runs[r].analysisData.body.status = 200) =>
              analyzedParticles' = analyzedParticles]_vars

\* C3: at most one request to /api/analyze-particles is in flight
C3_AtMostOneCall ==
    Cardinality({r \in Runs : runs[r].pc = "analyzing"}) <= 1

\* the image dimensions are there and not zero
DimensionsPresent(detectionData) ==
    /\ detectionData.hasImage
    /\ detectionData.width # 0
    /\ detectionData.height # 0

\* the step in which run r handles a failure of the characterization phase
AnalysisFailureStep(r) ==
    \/ runs[r].pc = "annotating" /\ runs'[r].pc = "done"
    \/ /\ runs[r].pc = "responded" /\ runs'[r].pc = "done"
       /\ \/ runs[r].analysisData.kind # "response"
          \/ runs[r].analysisData.body.status # 200
          \/ runs[r].analysisData.body.error # Undef

\* the boxes of run r that meet the current threshold are all displayed,
\* with their geometry
GeometryDisplayed(r) ==
    LET displayed == particlesToDisplay' IN
    \A k \in 1..Len(runs[r].boxesToAnalyze) :
        runs[r].boxesToAnalyze[k].confidence >= confidenceThreshold =>
            \E p \in 1..Len(displayed) :
                \A f \in GeometryFields :
                    displayed[p][f] = runs[r].boxesToAnalyze[k][f]

C6_PhaseOrder ==
    /\ [](\A r \in Runs :
            runs[r].pc \in {"annotating", "analyzing", "responded"} =>
                DimensionsPresent(runs[r].detectionData))
    /\ [][\A r \in Runs :
            /\ (runs[r].pc = "detected" /\ ~DimensionsPresent(runs[r].detectionData)) =>
                  (runs'[r].pc \in {"detected", "done"}
                   /\ (runs'[r].pc = "done" =>
                          /\ errorState' # Null
                          /\ ~isDetecting' /\ ~isAnalyzing'
                          /\ boundingBoxes' = boundingBoxes))
            /\ (runs[r].pc = "done" => runs'[r].pc = "done")
            /\ (runs'[r].pc = "analyzing" => runs[r].pc \in {"annotating", "analyzing"})
            /\ (runs'[r].pc = "annotating" => runs[r].pc \in {"detected", "annotating"})]_vars

\* a run ended on detection data without image dimensions: the detection
\* error is shown and no run is in the characterization phase
C6_Witness ==
    /\ errorState = "Detection Error: Invalid detection data structure (missing image dimensions)."
    /\ \E r \in Runs : runs[r].pc = "done"
    /\ \A r \in Runs : runs[r].pc \in {"none", "done"}
    /\ ~isProcessing
    /\ boundingBoxes = <<>>

\* C7: when the reconciliation of a run has completed, there are as many
\* analyzed particles as valid boxes produced by the run's normalization
C7_CountEqualsNormalized ==
    [][\A r \in Runs :
          (/\ runs[r].pc = "responded" /\ runs'[r].pc = "done"
           /\ runs[r].analysisData.kind = "response"
           /\ runs[r].analysisData.body.status = 200) =>
              Len(analyzedParticles') =
                  Len(processRoboflowResults(runs[r].detectionData).boxes)]_vars

\* C8: the index a box is displayed with before characterization is the
\* index it carries in the characterization request
C8_IndexStable ==
    \A r \in Runs :
        (/\ runs[r].pc \in {"annotating", "analyzing"}
         /\ analyzedParticles = <<>>
         /\ boundingBoxes = processRoboflowResults(runs[r].detectionData).boxes) =>
            \A k \in 1..Len(runs[r].boxesToAnalyze) :
                \A p \in 1..Len(particlesToDisplay) :
                    (\A f \in GeometryFields :
                        particlesToDisplay[p][f] = runs[r].boxesToAnalyze[k][f]) =>
                        particlesToDisplay[p].index =
                            boxesWithIndices(runs[r].boxesToAnalyze)[k].index

----------------------------------------------------------------------------
(* Properties of the reply extraction, checked under SpecHandler *)

HasCh(text, c) == \E i \in 1..Len(text) : text[i].ch = c

FirstPos(text, c) ==
    CHOOSE i \in 1..Len(text) :
        text[i].ch = c /\ \A j \in 1..(i - 1) : text[j].ch # c

LastPos(text, c) ==
    CHOOSE i \in 1..Len(text) :
        text[i].ch = c /\ \A j \in (i + 1)..Len(text) : text[j].ch # c

\* no '[', or no ']', or the last ']' does not come after the first '['
NoArrayFound(text) ==
    \/ ~HasCh(text, "[")
    \/ ~HasCh(text, "]")
    \/ LastPos(text, "]") < FirstPos(text, "[")

FallbackResponse ==
    Response(200, "AI analysis completed, but response parsing failed.", TRUE,
             fallbackParticles(hReq.boundingBoxes))

\* C11: extraction fails, and the fallback is returned, exactly when the
\* reply has no '[', or no ']', or its last ']' is not after its first '[';
\* otherwise what is decoded is the text from the first '[' through the
\* last ']'
C11_BracketExtraction ==
    ReplyReceived =>
        LET text == hEnv.responseText
            parsed == Parsed
            noArrayFound == NoArrayFound(text)
        IN
        /\ (parsed.message = "Valid JSON array structure not found in AI response.")
              <=> noArrayFound
        /\ noArrayFound => (~parsed.ok /\ hResp = FallbackResponse)
        /\ ~noArrayFound =>
              LET decoded == JsonParse(SubSeq(text, FirstPos(text, "["), LastPos(text, "]")))
              IN /\ parsed.ok = decoded.ok
                 /\ decoded.ok => parsed.parsedAnalysis = decoded.items
                 /\ hResp.particles =
                       IF decoded.ok
                       THEN finalParticles(hReq.boundingBoxes, decoded.items)
                       ELSE fallbackParticles(hReq.boundingBoxes)

\* a reply that has both brackets, every ']' before the first '[': the
\* fallback is returned
C11_Witness ==
    /\ ReplyReceived
    /\ HasCh(hEnv.responseText, "[")
    /\ HasCh(hEnv.responseText, "]")
    /\ NoArrayFound(hEnv.responseText)
    /\ hResp = FallbackResponse
    /\ hResp.particles[1].analysis.shape = "Parse Error"

\* text is the text of a JSON array
IsArrayText(text) ==
    /\ text # <<>>
    /\ LET value == JsonParse(text) IN value.ok /\ value.isArray

\* text has no JSON value in it: prose, fences, punctuation
IsProse(text) == ~HasCh(text, "v")

\* the reply text is before \o array \o after
Wraps(before, array, after) ==
    /\ IsProse(before) /\ IsProse(after)
    /\ hEnv.responseText = before \o array \o after
    /\ IsArrayText(array)

Cuts == 0..Len(hEnv.responseText)

Piece(i, j) == SubSeq(hEnv.responseText, i + 1, j)

\* C12 as stated: whatever prose and fences surround an array text, the
\* reply is parsed to what the array text alone is parsed to
C12_WrappingIgnored ==
    ReplyReceived =>
        \A i, j \in Cuts :
            (i < j /\ Wraps(Piece(0, i), Piece(i, j), Piece(j, Len(hEnv.responseText)))) =>
                Parsed = ParseGeminiResponse(Piece(i, j))

\* C12 amended: when the text before the array has no '[' and the text
\* after it has no ']', the reply is parsed to what the array text alone is
\* parsed to, and the response is the one the bare array gives (an array
\* text begins with '[' and ends with ']')
C12_CleanWrappingIgnored ==
    ReplyReceived =>
        \A i, j \in Cuts :
            (/\ i < j
             /\ hEnv.responseText[i + 1].ch = "[" /\ hEnv.responseText[j].ch = "]"
             /\ ~HasCh(Piece(0, i), "[")
             /\ ~HasCh(Piece(j, Len(hEnv.responseText)), "]")
             /\ Wraps(Piece(0, i), Piece(i, j), Piece(j, Len(hEnv.responseText)))) =>
                /\ Parsed = ParseGeminiResponse(Piece(i, j))
                /\ Parsed.ok
                /\ hResp = POST(hReq, [hEnv EXCEPT !.responseText = Piece(i, j)])

\* an array with an entry for box 0, with prose and a fence before it and a
\* fence and prose after it: the entry is merged
C12_Witness ==
    /\ MergeReached
    /\ \E i, j \in Cuts :
          /\ 2 <= i /\ i < j /\ j + 2 <= Len(hEnv.responseText)
          /\ Wraps(Piece(0, i), Piece(i, j), Piece(j, Len(hEnv.responseText)))
          /\ ~HasCh(Piece(0, i), "[")
          /\ ~HasCh(Piece(j, Len(hEnv.responseText)), "]")
          /\ HasCh(Piece(0, i), "fence")
    /\ HasEntry(Parsed.parsedAnalysis, 0)
    /\ hResp.particles[1].analysis \in {Fiber, Fragment}

----------------------------------------------------------------------------
(* Properties of the geometry, checked under SpecGeometry *)

Normalized == gpc # "raw"

\* C13: normalization fails, and produces no boxes, whenever the image
\* width or height is missing or is less than or equal to 0
C13_NonPositiveDimensionsRejected ==
    (Normalized /\ (~gData.hasImage \/ gData.width <= 0 \/ gData.height <= 0)) =>
        (~gResult.ok /\ gResult.boxes = <<>>)

NumericFields == {"x", "y", "width", "height", "confidence"}

\* the box of a raw prediction for an image of imgWidth by imgHeight
BoxOf(pred, imgWidth, imgHeight) ==
    BoundingBox(Rel(pred.x, imgWidth), Rel(pred.y, imgHeight),
                Rel(pred.width, imgWidth), Rel(pred.height, imgHeight),
                pred.confidence, pred.class)

\* the result is exactly the boxes of survivors, in order
NormalizesTo(survivors) ==
    /\ gResult.ok
    /\ Len(gResult.boxes) = Len(survivors)
    /\ \A k \in 1..Len(survivors) :
          gResult.boxes[k] = BoxOf(survivors[k], gData.width, gData.height)

\* C15 as stated: every prediction lacking one of x, y, width, height,
\* confidence is skipped without failing, and the output is the subsequence
\* of the other predictions in their original order
C15_NumericFieldsOnly ==
    (Normalized /\ DimensionsPresent(gData)) =>
        NormalizesTo(SelectSeq(gData.predictions,
                               LAMBDA pred : pred.missing \cap NumericFields = {}))

\* C15 amended: every prediction that is null, lacks one of the numbers x,
\* y, width, height, confidence or lacks a string class is skipped without
\* failing, and the output is the subsequence of the other predictions in
\* their original order, so box k (from 0) is the k-th survivor
C15_SkipsMalformed ==
    (Normalized /\ DimensionsPresent(gData)) =>
        NormalizesTo(SelectSeq(gData.predictions,
                               LAMBDA pred : pred.missing \cap (NumericFields \cup {"class"}) = {}))

\* two predictions, the first lacks a numeric field: the only box is the
\* box of the second
C15_Witness ==
    /\ Normalized /\ DimensionsPresent(gData)
    /\ Len(gData.predictions) = 2
    /\ gData.predictions[1].missing \cap NumericFields # {}
    /\ gData.predictions[1].missing # RequiredFields
    /\ gData.predictions[2].missing = {}
    /\ gResult.ok
    /\ Len(gResult.boxes) = 1
    /\ gResult.boxes[1].class = gData.predictions[2].class

\* the predictions that normalization keeps
Survivors == SelectSeq(gData.predictions, LAMBDA pred : pred.missing = {})

\* the boxes were drawn on a canvas of the size the detector reported,
\* which is positive
RoundTripDone ==
    /\ gpc \in {"annotated", "drawn"}
    /\ gData.width > 0 /\ gData.height > 0
    /\ gTarget.width = gData.width /\ gTarget.height = gData.height

\* C16 as stated: normalizing and then denormalizing against the same W, H
\* yields the original rectangle: widthPx = width, heightPx = height,
\* topLeftX = x - width/2, topLeftY = y - height/2
C16_RoundTripExact ==
    RoundTripDone =>
        \A k \in 1..Len(gRects) :
            LET pred == Survivors[k] IN
            /\ gRects[k].width = RoundRatio(pred.width, 1)
            /\ gRects[k].height = RoundRatio(pred.height, 1)
            /\ gRects[k].topLeftX = RoundRatio(2 * pred.x - pred.width, 2)
            /\ gRects[k].topLeftY = RoundRatio(2 * pred.y - pred.height, 2)

\* |f - n / d| <= (magnitude / d) * 2^-(MantissaBits - 2)
Within(f, n, d, magnitude) ==
    LET den == IF f[2] < 0 THEN Pow2(-f[2]) ELSE 1
        num == IF f[2] < 0 THEN f[1] ELSE f[1] * Pow2(f[2])
    IN Abs(num * d - n * den) * Pow2(MantissaBits - 2) <= magnitude * den

\* C16 amended: the round trip yields the original rectangle within the
\* tolerance of the floating-point arithmetic: each of widthPx, heightPx,
\* topLeftX, topLeftY differs from width, height, x - width/2, y - height/2
\* by at most 2^-(MantissaBits - 2) times the size of the operands
C16_RoundTripWithinTolerance ==
    RoundTripDone =>
        /\ Len(gRects) = Len(Survivors)
        /\ \A k \in 1..Len(gRects) :
            LET pred == Survivors[k] IN
            /\ Within(gRects[k].width, pred.width, 1, Abs(pred.width))
            /\ Within(gRects[k].height, pred.height, 1, Abs(pred.height))
            /\ Within(gRects[k].topLeftX, 2 * pred.x - pred.width, 2,
                      2 * Abs(pred.x) + Abs(pred.width))
            /\ Within(gRects[k].topLeftY, 2 * pred.y - pred.height, 2,
                      2 * Abs(pred.y) + Abs(pred.height))

\* a box whose width does not survive the round trip exactly
C16_Witness ==
    /\ RoundTripDone
    /\ Len(gRects) > 0
    /\ gRects[1].width # RoundRatio(Survivors[1].width, 1)
    /\ Within(gRects[1].width, Survivors[1].width, 1, Abs(Survivors[1].width))

\* the detector reports 200x100 and its first usable prediction is
\* {x: 100, y: 50, width: 40, height: 20}; the target is 400x200
ScenarioA ==
    /\ Normalized
    /\ gData.hasImage /\ gData.width = 200 /\ gData.height = 100
    /\ gTarget.width = 400 /\ gTarget.height = 200
    /\ Len(Survivors) > 0
    /\ Survivors[1].x = 100 /\ Survivors[1].y = 50
    /\ Survivors[1].width = 40 /\ Survivors[1].height = 20

ScenarioANormalized ==
    /\ gResult.ok
    /\ gResult.boxes[1].x = RoundRatio(1, 2)
    /\ gResult.boxes[1].y = RoundRatio(1, 2)
    /\ gResult.boxes[1].width = RoundRatio(1, 5)
    /\ gResult.boxes[1].height = RoundRatio(1, 5)

Rect(topLeftX, topLeftY, width, height) ==
    [topLeftX |-> RoundRatio(topLeftX, 1), topLeftY |-> RoundRatio(topLeftY, 1),
     width |-> RoundRatio(width, 1), height |-> RoundRatio(height, 1)]

\* C17 as stated: Scenario A normalizes to {0.5, 0.5, 0.2, 0.2} and
\* denormalizes at 400x200 to topLeft = (140, 70), width = 80, height = 40
C17_ScenarioAAsStated ==
    ScenarioA =>
        /\ ScenarioANormalized
        /\ gpc \in {"annotated", "drawn"} => gRects[1] = Rect(140, 70, 80, 40)

\* C17 amended: Scenario A normalizes to {0.5, 0.5, 0.2, 0.2} and
\* denormalizes at 400x200 to topLeft = (160, 80), width = 80, height = 40,
\* on the annotation canvas and, for an image of natural size 200x100
\* displayed at 400x200, on the overlay
C17_ScenarioA ==
    ScenarioA =>
        /\ ScenarioANormalized
        /\ gpc \in {"annotated", "drawn"} => gRects[1] = Rect(160, 80, 80, 40)
        /\ (gpc = "drawn" /\ gOverlay.natural = [width |-> 200, height |-> 100]) =>
              gOverlay.rects[1] = Rect(160, 80, 80, 40)

\* Scenario A drawn on the canvas and on the overlay
C17_Witness ==
    /\ ScenarioA
    /\ gpc = "drawn"
    /\ gOverlay.natural = [width |-> 200, height |-> 100]
    /\ gRects[1].topLeftX = RoundRatio(160, 1)
    /\ gOverlay.rects[1].topLeftY = RoundRatio(80, 1)

----------------------------------------------------------------------------
(* Properties of the page component, checked under Spec *)

\* run r goes on after /api/detect answered with valid dimensions and
\* predictions that are absent, not a list, or empty
NoPredictionsStep(r) ==
    /\ runs[r].pc = "detected" /\ runs'[r].pc # "detected"
    /\ runs[r].detectionData.hasImage
    /\ runs[r].detectionData.width > 0 /\ runs[r].detectionData.height > 0
    /\ (~runs[r].detectionData.hasPredictions \/ runs[r].detectionData.predictions = <<>>)

\* C14: with valid dimensions, predictions that are absent, not a list or
\* empty normalize to the empty box list without an error, and the run ends
\* there: no characterization call, no error state
C14_NoPredictionsNoError ==
    [][\A r \in Runs : NoPredictionsStep(r) =>
          /\ processRoboflowResults(runs[r].detectionData) = [ok |-> TRUE, boxes |-> <<>>]
          /\ boundingBoxes' = <<>>
          /\ runs'[r].pc = "done"
          /\ ~isDetecting'
          /\ isAnalyzing' = isAnalyzing
          /\ errorState' = errorState
          /\ analysisErrorState' = analysisErrorState
          /\ analyzedParticles' = analyzedParticles]_vars

\* the only run has ended with no boxes and no error
C14_Witness ==
    /\ nRuns = 1
    /\ capturedImage = 1
    /\ runs[1].pc = "done"
    /\ boundingBoxes = <<>>
    /\ errorState = Null
    /\ analysisErrorState = Null
    /\ ~isProcessing

\* the particle list the display is computed from: the analyzed particles
\* or, before there are any, the boxes with their positions
CurrentParticles ==
    IF analyzedParticles # <<>> THEN analyzedParticles
    ELSE [p \in 1..Len(boundingBoxes) |->
            WithIndexAnalysis(boundingBoxes[p], p - 1, NullAnalysis)]

\* positions of the current particles that meet the threshold
Kept == {p \in 1..Len(CurrentParticles) :
            CurrentParticles[p].confidence >= confidenceThreshold}

\* the k-th position of Kept
KeptAt(k) == CHOOSE p \in Kept : Cardinality({q \in Kept : q < p}) = k - 1

\* C18: the displayed list is the subsequence of the current particle list
\* with confidence >= threshold (equal is kept), in the original order, and
\* each kept particle keeps its index
C18_FilterKeepsOrder ==
    LET displayed == particlesToDisplay
        current == CurrentParticles
    IN
    /\ Len(displayed) = Cardinality(Kept)
    /\ \A k \in 1..Len(displayed) :
          /\ displayed[k] = current[KeptAt(k)]
          /\ displayed[k].index = current[KeptAt(k)].index

\* two analyzed particles are displayed, the first with a confidence equal
\* to the threshold
C18_Witness ==
    /\ Len(analyzedParticles) = 2
    /\ Len(particlesToDisplay) = 2
    /\ particlesToDisplay[1].confidence = confidenceThreshold
    /\ particlesToDisplay[1].index = 0
    /\ particlesToDisplay[2].index = 1

\* the displayed particles that count: analysis present, no error, shape
\* not "Not Analyzed"
Contributing ==
    LET displayed == particlesToDisplay IN
    {k \in 1..Len(displayed) :
        /\ displayed[k].analysis.tag = "object"
        /\ displayed[k].analysis.error = Undef
        /\ displayed[k].analysis.shape # "Not Analyzed"}

\* map counts the contributing particles by the label of field
Distribution(map, field) ==
    LET displayed == particlesToDisplay
        contributing == Contributing
    IN
    /\ DOMAIN map = {Label(displayed[k].analysis[field]) : k \in contributing}
    /\ \A label \in DOMAIN map :
          map[label] = Cardinality({k \in contributing :
                                      Label(displayed[k].analysis[field]) = label})

C20_StatsFloor ==
    Contributing = {} =>
        /\ analysisStats.tag = "object"
        /\ ~analysisStats.hasStats
        /\ analysisStats.analyzedCount = 0
        /\ DOMAIN analysisStats.shapes = {}
        /\ DOMAIN analysisStats.colors = {}
        /\ DOMAIN analysisStats.transparency = {}

----------------------------------------------------------------------------
(* Display modes *)

ExtendedModes == {"type", "color", "transparency"}

\* C21: the base mode "confidence" is available in every state, and each of
\* the extended modes "type", "color" and "transparency" is available, and
\* offered by the select, if and only if the current stats have hasStats = true
C21_ModesFollowStats ==
    LET stats == analysisStats IN
    /\ "confidence" \in availableDisplayModes
    /\ availableDisplayModes \subseteq {"confidence"} \cup ExtendedModes
    /\ \A mode \in ExtendedModes :
          mode \in availableDisplayModes <=> (stats.tag = "object" /\ stats.hasStats)
    /\ displayOptions = availableDisplayModes

\* a characterized particle is displayed next to one that was not analyzed,
\* and an extended mode has been selected
C21_Witness ==
    /\ analysisStats.tag = "object"
    /\ analysisStats.hasStats
    /\ analysisStats.analyzedCount < analysisStats.count
    /\ displayMode = "type"
    /\ ExtendedModes \subseteq availableDisplayModes

\* C27: in every reachable state the selected display mode is one of the
\* available display modes
C27_ModeAvailable == displayMode \in availableDisplayModes

----------------------------------------------------------------------------
(* Error states *)

\* what the catch block of startDetection may put in errorState
DetectionMessages ==
    {"Detection Error",
     "Detection Error: Invalid detection data structure (missing image dimensions)."}

\* what handleFileUpload and captureImage may put in errorState
SubmissionMessages == {"Failed to read file.", "Failed to capture image."}

\* what startAnalysis may put in analysisErrorState
AnalysisMessages ==
    {"Analysis Error: Failed to fetch",
     "Analysis Error: Analysis API non-JSON response",
     "Analysis Error: Invalid data structure from analysis API.",
     "Analysis Error: Failed to load image for annotation canvas",
     "Analysis Error: AI service error",
     "Analysis Error: Server configuration error.",
     "Analysis Error: Missing image data.",
     "Analysis Error: Missing bounding boxes.",
     "AI analysis completed, but response parsing failed."}

\* run r fails in the detection phase: the detection call fails, or the
\* detection data has no usable image dimensions
DetectionFailureStep(r) ==
    \/ runs[r].pc = "detecting" /\ runs'[r].pc = "done"
    \/ /\ runs[r].pc = "detected" /\ runs'[r].pc = "done"
       /\ ~DimensionsPresent(runs[r].detectionData)

\* C22: a failure of the detection phase is reported through errorState
\* only, by a run that has produced no geometry; a failure of the
\* characterization phase is reported through analysisErrorState only, by
\* a run that has geometry; and neither state ever holds a message of the
\* other phase
C22_ErrorsTaggedByPhase ==
    /\ [](/\ errorState \in {Null} \cup DetectionMessages \cup SubmissionMessages
          /\ analysisErrorState \in {Null} \cup AnalysisMessages)
    /\ [][\A r \in Runs :
            /\ DetectionFailureStep(r) =>
                  /\ errorState' \in DetectionMessages
                  /\ analysisErrorState' = analysisErrorState
                  /\ boundingBoxes' = boundingBoxes
                  /\ analyzedParticles' = analyzedParticles
                  /\ runs[r].boxesToAnalyze = <<>>
            /\ AnalysisFailureStep(r) =>
                  /\ analysisErrorState' \in AnalysisMessages
                  /\ errorState' = errorState
                  /\ boundingBoxes' = boundingBoxes
                  /\ Len(runs[r].boxesToAnalyze) > 0]_vars

\* two runs have failed, one in each phase: each failure is in the state
\* of its phase
C22_Witness ==
    /\ errorState = "Detection Error"
    /\ analysisErrorState = "Analysis Error: Failed to fetch"
    /\ \A r \in Runs : runs[r].pc = "done"
    /\ ~isProcessing

----------------------------------------------------------------------------
(* Reconciliation: duplicates and entries without a numeric index *)

\* entry k of the reply is an entry with index == i
EntryFor(parsedAnalysis, k, i) ==
    /\ parsedAnalysis[k].kind = "object"
    /\ parsedAnalysis[k].idxType = "number"
    /\ parsedAnalysis[k].idx = i

\* C23: for every original index i for which the parsed array has an entry
\* with index == i, the analysis of particle i is the analysis of the first
\* such entry in array order, whatever later entries with that index hold
C23_FirstDuplicateWins ==
    MergeReached =>
        LET parsedAnalysis == Parsed.parsedAnalysis IN
        /\ Len(hResp.particles) = Len(hReq.boundingBoxes)
        /\ \A p \in 1..Len(hResp.particles) :
              \A k \in 1..Len(parsedAnalysis) :
                  (/\ EntryFor(parsedAnalysis, k, p - 1)
                   /\ \A j \in 1..(k - 1) : ~EntryFor(parsedAnalysis, j, p - 1)) =>
                      hResp.particles[p].analysis = parsedAnalysis[k].analysis

\* the reply names index 0 twice, with different analyses: particle 0 has
\* the analysis of the first entry
C23_Witness ==
    /\ MergeReached
    /\ Len(Parsed.parsedAnalysis) = 2
    /\ EntryFor(Parsed.parsedAnalysis, 1, 0)
    /\ EntryFor(Parsed.parsedAnalysis, 2, 0)
    /\ Parsed.parsedAnalysis[1].analysis = Fragment
    /\ Parsed.parsedAnalysis[2].analysis = Fiber
    /\ hResp.particles[1].analysis = Fragment

\* the entry is not an object with a number as index: a null entry, an
\* array, an index that is missing, null or a string
NonNumeric(item) == item.kind # "object" \/ item.idxType # "number"

\* C24: an entry of the parsed array whose index is not a number is
\* ignored: the reply is merged, not replaced by the fallback, no box gets
\* a match from such an entry, and every box has the analysis it has when
\* the array is merged without these entries
C24_NonNumericIgnored ==
    (ReplyReceived /\ IsArrayText(hEnv.responseText)) =>
        LET parsedAnalysis == Parsed.parsedAnalysis
            numeric == SelectSeq(parsedAnalysis, LAMBDA item : ~NonNumeric(item))
        IN
        /\ Parsed.ok
        /\ parsedAnalysis = JsonParse(hEnv.responseText).items
        /\ hResp.status = 200 /\ hResp.error = Undef
        /\ Len(hResp.particles) = Len(hReq.boundingBoxes)
        /\ \A p \in 1..Len(hResp.particles) :
              /\ (\A k \in 1..Len(parsedAnalysis) :
                      NonNumeric(parsedAnalysis[k]) \/ parsedAnalysis[k].idx # p - 1) =>
                    hResp.particles[p].analysis = NotAnalyzed
              /\ \A k \in 1..Len(numeric) :
                    (/\ numeric[k].idx = p - 1
                     /\ \A j \in 1..(k - 1) : numeric[j].idx # p - 1) =>
                        hResp.particles[p].analysis = numeric[k].analysis

\* the reply has an entry with the string "0" as index before the entry
\* with the number 0: particle 0 has the analysis of the second
C24_Witness ==
    /\ MergeReached
    /\ Len(Parsed.parsedAnalysis) = 2
    /\ Parsed.parsedAnalysis[1].idxType = "string"
    /\ Parsed.parsedAnalysis[1].idx = 0
    /\ Parsed.parsedAnalysis[1].analysis = Fragment
    /\ EntryFor(Parsed.parsedAnalysis, 2, 0)
    /\ hResp.particles[1].analysis = Fiber
    /\ hResp.error = Undef

\* C28: every particle the handler returns, from the merge or from the
\* fallback, has an analysis object, which is the analysis of an entry of
\* the parsed array or a sentinel
C28_AnalysisNeverNull ==
    (ReplyReceived /\ hResp.hasParticles) =>
        \A p \in 1..Len(hResp.particles) :
            /\ hResp.particles[p].analysis.tag = "object"
            /\ \/ hResp.particles[p].analysis \in {NotAnalyzed, ParseErrorAnalysis}
               \/ \E k \in 1..Len(Parsed.parsedAnalysis) :
                     hResp.particles[p].analysis = Parsed.parsedAnalysis[k].analysis

----------------------------------------------------------------------------
(* Overlay labels *)

\* the analysis of the particle is missing, has an error, or is the
\* "Not Analyzed" sentinel
Uncharacterized(particle) ==
    \/ particle.analysis.tag \in {"null", "undefined"}
    \/ particle.analysis.error # Undef
    \/ particle.analysis.shape = "Not Analyzed"

\* the field of the analysis that the display mode selects
SelectedField(particle, mode) ==
    IF mode = "type" THEN particle.analysis.shape
    ELSE IF mode = "color" THEN particle.analysis.color
    ELSE particle.analysis.transparency

\* the class and the confidence percentage of the particle
ShowsClass(text, particle) ==
    /\ text.form = "class (confidence%)"
    /\ text.class = particle.class
    /\ text.percent = particle.confidence

\* C25 as stated: the label is the class with the confidence percentage
\* when the analysis is missing, has an error or is the sentinel, and
\* otherwise the field that the display mode selects
C25_LabelIsSelectedField ==
    lpc = "drawn" =>
        IF Uncharacterized(lParticle) THEN ShowsClass(lLabel.text, lParticle)
        ELSE IF lMode = "confidence"
        THEN lLabel.text.form = "confidence%" /\ lLabel.text.percent = lParticle.confidence
        ELSE lLabel.text.form = "field"
             /\ lLabel.text.value = SelectedField(lParticle, lMode)

\* C25 amended: as stated, except that a selected field that is absent or
\* empty is shown as "Unknown"
C25_LabelText ==
    lpc = "drawn" =>
        IF Uncharacterized(lParticle) THEN ShowsClass(lLabel.text, lParticle)
        ELSE IF lMode = "confidence"
        THEN lLabel.text.form = "confidence%" /\ lLabel.text.percent = lParticle.confidence
        ELSE /\ lLabel.text.form = "field"
             /\ lLabel.text.value =
                    IF SelectedField(lParticle, lMode) \in {Undef, ""} THEN "Unknown"
                    ELSE SelectedField(lParticle, lMode)

\* a particle with the "Parse Error" analysis is drawn in mode "type": its
\* label is the class and the confidence
C25_Witness ==
    /\ lpc = "drawn"
    /\ lMode = "type"
    /\ lParticle.analysis = ParseErrorAnalysis
    /\ ShowsClass(lLabel.text, lParticle)

\* where the label stands: directly above the box, or below it when the
\* position above starts over the top of the viewport
PlacedAboveOrBelow ==
    LET above == lBox.topLeftY - Pixels(11) - (Pixels(3) * 3) \div 2
        below == lBox.topLeftY + lBox.boxHeight + Pixels(3) \div 2
    IN lLabel.y = (IF above < 0 THEN below ELSE above)

----------------------------------------------------------------------------
(* Processing flag and termination *)

\* the request to /api/detect or to /api/analyze-particles of run r is
\* outstanding
Outstanding(r) == runs[r].pc \in {"detecting", "analyzing"}

\* C29: isProcessing is true in every state in which a detection request
\* or a characterization request of any run is outstanding
C29_ProcessingWhileOutstanding ==
    \A r \in Runs : Outstanding(r) => isProcessing

\* C30: every run that startDetection has started reaches, on every path,
\* its end with isDetecting = false and isAnalyzing = false
C30_RunsFinish ==
    \A r \in Runs :
        (runs[r].pc = "detecting") ~>
            (runs[r].pc = "done" /\ ~isDetecting /\ ~isAnalyzing)

\* a run has ended after a characterization that failed, and nothing is
\* in progress
C30_Witness ==
    /\ nRuns = 1
    /\ runs[1].pc = "done"
    /\ analysisErrorState = "Analysis Error: Analysis API non-JSON response"
    /\ Len(boundingBoxes) > 0
    /\ ~isDetecting /\ ~isAnalyzing

====
